---- MODULE Spec2Model ----
(***************************************************************************)
(* RooCode human-relay automation.                                         *)
(*                                                                         *)
(*   Spec        RelayAutomation.run (the retry / pause loop) interleaved  *)
(*               with RelayAutomation._hotkey_listener.                    *)
(*   FairSpec    Spec with weak fairness of the main loop (the main thread *)
(*               keeps being scheduled).                                   *)
(*   SpecDetect  one call of ImageRecognizer.find_with_fallback_and_click, *)
(*               with time counted in ticks of 0.5 s.                      *)
(*   SpecColor   one call of ImageRecognizer._color_match or               *)
(*               _average_color.                                           *)
(*   SpecPixel   calls of ImageRecognizer.find_pixel_and_click on one key, *)
(*               rule by rule, on a screen that may change.                *)
(*   SpecText    one call of ImageRecognizer.find_text_and_click.          *)
(*   SpecRetry   the retry handler of run() under a configuration of the   *)
(*               retries section.                                          *)
(*   SpecSend    one call of BrowserAutomation.send_prompt and what run()  *)
(*               does when it is over.                                     *)
(***************************************************************************)
EXTENDS Integers, Sequences, FiniteSets, TLC

VARIABLES
    \* ---- RelayAutomation.run ----
    pc,           \* position of the main loop in run()
    retries,      \* local `retries` of run()
    iterations,   \* self.iterations
    iterBase,     \* self.iterations when the current outer iteration began
    enabled,      \* self.browser.enabled
    driver,       \* self.browser.driver: "none", "open" or "closed"
    note,         \* last notification sent by the main loop
    reason,       \* message of the RuntimeError of the current attempt
    sleeps,       \* backoff sleeps of the current outer iteration, in order
    steps,        \* steps performed by the current attempt, in order
    copyRetried,  \* the attempt pressed ctrl+c again (line 127)
    \* ---- RelayAutomation._hotkey_listener ----
    paused,       \* self.paused
    hk,           \* position of the listener thread: "listen", "debounce",
                  \* or "debounce_missed" after a press the sleep swallowed
    hkNote,       \* last notification sent by the listener
    \* ---- ImageRecognizer.find_with_fallback_and_click ----
    dpc,          \* position inside the call
    now,          \* time.time() - start_time of the call, in ticks
    stageStart,   \* start_time of the running locator
    stageTimeout, \* timeout handed to the running locator
    kcfg,         \* what the configuration holds for the key, and the text hint
    timeout,      \* the timeout argument of the call
    screen,       \* what the screen shows and from when; lag: the longest a
                  \* sensing call (capture, match, OCR) takes during the call
    found,        \* return value of the last locator
    result,       \* return value of the call: "none" until it returns
    calls,        \* locators invoked, in order
    clicks,       \* clicks performed, in order
    sensErr,      \* a sensing error was swallowed during the call
    \* ---- ImageRecognizer._color_match / _average_color, one call ----
    job,          \* the function called and its arguments
    out,          \* what the call gave: "none" until it is made
    \* ---- ImageRecognizer.find_pixel_and_click, calls on one key ----
    ppc,          \* position inside the call
    live,         \* the pixels the screen shows
    shot,         \* `screenshot` of the running poll (line 91)
    rules,        \* pixel_cfgs: the rules configured for the key, in order
    ptimeout,     \* the timeout argument, in ticks
    pnow,         \* time.time() - start_time, in ticks
    idx,          \* position of the for loop of line 94, from 1
    evals,        \* rules evaluated by the running poll: what was sampled
    pclicks,      \* clicks of the running call, in order
    pres,         \* return value of the running call: "none" until it returns
    pcall,        \* number of the running call
    pollLog,      \* polls finished so far: call, screenshot and outcome
    \* ---- ImageRecognizer.find_text_and_click, one call ----
    tpc,          \* position inside the call
    ocr_enabled,  \* self.ocr_enabled
    words,        \* what image_to_data reports for the screen, in order
    target,       \* the `text` argument
    ttimeout,     \* the timeout argument, in ticks
    tnow,         \* time.time() - start_time, in ticks
    tclicks,      \* clicks of the call, in order
    tres,         \* return value of the call: "none" until it returns
    captures,     \* screenshots taken by the call
    \* ---- the retry handler of run() under a configuration ----
    rpc,          \* "attempt", "skipped" (max retries) or "succeeded"
    rcfg,         \* the retries section of the configuration
    failures,     \* local `retries` of run()
    slept,        \* seconds slept after each failure, in order
    \* ---- BrowserAutomation.send_prompt, one call ----
    spc,          \* position inside the call
    backend,      \* self.backend
    attempt,      \* `attempt` of the for loop of line 100
    click_attempt,\* `click_attempt` of the for loop of lines 118 and 144
    success,      \* `success`: a Run button was clicked in this attempt
    entered,      \* the prompt text was put into the textarea in this attempt
    tries,        \* attempts begun
    fails,        \* attempts that ended in the except of line 169
    sslept        \* time the call has slept, in ticks of 0.5 s

mainVars == <<pc, retries, iterations, iterBase, enabled, driver, note, reason,
              sleeps, steps, copyRetried>>
hkVars   == <<paused, hk, hkNote>>
detVars  == <<dpc, now, stageStart, stageTimeout, kcfg, timeout, screen, found,
              result, calls, clicks, sensErr>>
colVars  == <<job, out>>
pixVars  == <<ppc, live, shot, rules, ptimeout, pnow, idx, evals, pclicks, pres,
              pcall, pollLog>>
txtVars  == <<tpc, ocr_enabled, words, target, ttimeout, tnow, tclicks, tres,
              captures>>
rtyVars  == <<rpc, rcfg, failures, slept>>
sndVars  == <<spc, backend, attempt, click_attempt, success, entered, tries, fails,
              sslept>>
auxVars  == <<colVars, pixVars, txtVars, rtyVars, sndVars>>
runVars  == <<mainVars, hkVars, detVars>>
vars     == <<mainVars, hkVars, detVars, auxVars>>

----------------------------------------------------------------------------
(* Bounds of the model *)

MaxIterations == 6     \* cap of self.iterations
MaxTimeout    == 20    \* largest timeout of a detector call, ticks (10 s)
MaxJitter     == 1     \* largest time one sensing call takes, ticks
AppearAt      == 6     \* tick at which a late element shows up (3 s)
MaxChan       == 2     \* largest channel value of a colour handed to _color_match
MaxPixels     == 2     \* most pixels of an image handed to _average_color
MaxRules      == 2     \* most rules configured for a pixel key
MaxPixTimeout == 2     \* largest timeout of a find_pixel_and_click call, ticks
MaxWords      == 2     \* most words OCR reports for a screen
MaxTxtTimeout == 2     \* largest timeout of a find_text_and_click call, ticks
MaxRetriesCfg == 4     \* largest retries.max_retries_per_iteration
MaxBase       == 3     \* largest retries.backoff_base_seconds
MaxCap        == 7     \* largest retries.max_backoff_seconds

(* Program constants *)

max_retries  == 5      \* retries.max_retries_per_iteration
backoff_base == 2      \* retries.backoff_base_seconds
max_backoff  == 30     \* retries.max_backoff_seconds
max_attempts == 3      \* max_attempts of send_prompt
ClickTries   == 3      \* range(3) of the Run-button loop of send_prompt
PollSleep    == 1      \* time.sleep(0.5), in ticks
OpDelay      == 2      \* delays.operation (1 s), in ticks
DefaultTolerance == 10 \* pixel_cfg.get("tolerance", 10)

\* a tick no call reaches: an element that shows up then never shows up
Never == MaxTimeout + MaxJitter + OpDelay + PollSleep + 1

----------------------------------------------------------------------------
(* RelayAutomation.run *)

RECURSIVE Pow2(_)
Pow2(n) == IF n <= 0 THEN 1 ELSE 2 * Pow2(n - 1)

Min(a, b) == IF a <= b THEN a ELSE b

\* line 296
Backoff(r) == Min(backoff_base * Pow2(r - 1), max_backoff)

\* return values of find_with_fallback_and_click as run() sees them: True,
\* False, or an exception of a screen capture that no locator catches
DetectOutcomes == {"found", "notfound", "raised"}

\* positions of one attempt, past the start-of-attempt checkpoint
AttemptPcs == {"focus_vscode", "copy", "clip_read", "send", "get_md", "clip_write",
               "focus_browser", "textarea", "paste_prompt", "run_single",
               "run_fallback", "wait_response", "hover", "more_options",
               "copy_markdown", "focus_back", "vscode_textarea",
               "paste_response", "submit", "completed"}

PausePcs == {"pause_notify", "wait", "resume_notify"}

\* `raise RuntimeError(msg)` inside the try of lines 102-284
Raise(msg) ==
    /\ pc' = "except"
    /\ reason' = msg

\* lines 308-315: any other exception ends run()
Crash ==
    /\ pc' = "crashed"
    /\ note' = "error"
    /\ driver' = IF enabled /\ driver = "open" THEN "closed" ELSE driver

\* OuterIteration with `retries = 0` hoisted out of the forever loop
OuterIterationKeepsCount ==
    /\ pc = "outer"
    /\ pc' = "check"
    /\ sleeps' = <<>>
    /\ iterBase' = iterations
    /\ UNCHANGED <<retries, iterations, enabled, driver, note, reason, steps,
                   copyRetried>>
    /\ UNCHANGED <<hkVars, detVars, auxVars>>

\* line 88
OuterIteration ==
    /\ pc = "outer"
    /\ pc' = "check"
    /\ retries' = 0
    /\ sleeps' = <<>>
    /\ iterBase' = iterations
    /\ UNCHANGED <<iterations, enabled, driver, note, reason, steps, copyRetried>>
    /\ UNCHANGED <<hkVars, detVars, auxVars>>

\* CheckPaused without the test of the flag
CheckPausedIgnored ==
    /\ pc = "check"
    /\ pc' = "start"
    /\ UNCHANGED <<retries, iterations, iterBase, enabled, driver, note, reason,
                   sleeps, steps, copyRetried>>
    /\ UNCHANGED <<hkVars, detVars, auxVars>>

\* line 90
CheckPaused ==
    /\ pc = "check"
    /\ pc' = IF paused THEN "pause_notify" ELSE "start"
    /\ UNCHANGED <<retries, iterations, iterBase, enabled, driver, note, reason,
                   sleeps, steps, copyRetried>>
    /\ UNCHANGED <<hkVars, detVars, auxVars>>

\* lines 91-92
PauseNotify ==
    /\ pc = "pause_notify"
    /\ pc' = "wait"
    /\ note' = "paused"
    /\ UNCHANGED <<retries, iterations, iterBase, enabled, driver, reason,
                   sleeps, steps, copyRetried>>
    /\ UNCHANGED <<hkVars, detVars, auxVars>>

\* WaitPaused with the loop condition inverted
WaitPausedInverted ==
    /\ pc = "wait"
    /\ paused
    /\ pc' = "resume_notify"
    /\ UNCHANGED <<retries, iterations, iterBase, enabled, driver, note, reason,
                   sleeps, steps, copyRetried>>
    /\ UNCHANGED <<hkVars, detVars, auxVars>>

\* lines 93-94; while the flag is set the loop only sleeps
WaitPaused ==
    /\ pc = "wait"
    /\ ~paused
    /\ pc' = "resume_notify"
    /\ UNCHANGED <<retries, iterations, iterBase, enabled, driver, note, reason,
                   sleeps, steps, copyRetried>>
    /\ UNCHANGED <<hkVars, detVars, auxVars>>

\* lines 95-97
ResumeNotify ==
    /\ pc = "resume_notify"
    /\ pc' = "check"
    /\ note' = "resumed"
    /\ UNCHANGED <<retries, iterations, iterBase, enabled, driver, reason,
                   sleeps, steps, copyRetried>>
    /\ UNCHANGED <<hkVars, detVars, auxVars>>

\* lines 99-100
StartAttempt ==
    /\ pc = "start"
    /\ iterations < MaxIterations
    /\ iterations' = iterations + 1
    /\ pc' = "focus_vscode"
    /\ steps' = <<>>
    /\ reason' = "none"
    /\ copyRetried' = FALSE
    /\ UNCHANGED <<retries, iterBase, enabled, driver, note, sleeps>>
    /\ UNCHANGED <<hkVars, detVars, auxVars>>

\* line 104
FocusVSCode ==
    /\ pc = "focus_vscode"
    /\ pc' = "copy"
    /\ steps' = Append(steps, "focus_vscode")
    /\ UNCHANGED <<retries, iterations, iterBase, enabled, driver, note, reason,
                   sleeps, copyRetried>>
    /\ UNCHANGED <<hkVars, detVars, auxVars>>

\* DetectCopy that gives the attempt up when the flag is set
DetectCopyPauseAware ==
    /\ pc = "copy"
    /\ IF paused
         THEN /\ pc' = "check"
              /\ UNCHANGED <<steps, reason, note, driver>>
         ELSE \E r \in DetectOutcomes :
                CASE r = "found" ->
                       /\ pc' = IF enabled THEN "clip_read" ELSE "focus_browser"
                       /\ steps' = Append(steps, "copy")
                       /\ UNCHANGED <<reason, note, driver>>
                  [] r = "notfound" ->
                       /\ Raise("Could not find Copy button in VS Code")
                       /\ UNCHANGED <<steps, note, driver>>
                  [] OTHER ->
                       /\ Crash
                       /\ UNCHANGED <<steps, reason>>
    /\ UNCHANGED <<retries, iterations, iterBase, enabled, sleeps, copyRetried>>
    /\ UNCHANGED <<hkVars, detVars, auxVars>>

\* DetectCopy that branches on the driver instead of browser.enabled
DetectCopyByDriver ==
    /\ pc = "copy"
    /\ \E r \in DetectOutcomes :
         CASE r = "found" ->
                /\ pc' = IF driver = "open" THEN "clip_read" ELSE "focus_browser"
                /\ steps' = Append(steps, "copy")
                /\ UNCHANGED <<reason, note, driver>>
           [] r = "notfound" ->
                /\ Raise("Could not find Copy button in VS Code")
                /\ UNCHANGED <<steps, note, driver>>
           [] OTHER ->
                /\ Crash
                /\ UNCHANGED <<steps, reason>>
    /\ UNCHANGED <<retries, iterations, iterBase, enabled, sleeps, copyRetried>>
    /\ UNCHANGED <<hkVars, detVars, auxVars>>

\* lines 107-118
DetectCopy ==
    /\ pc = "copy"
    /\ \E r \in DetectOutcomes :
         CASE r = "found" ->
                /\ pc' = IF enabled THEN "clip_read" ELSE "focus_browser"
                /\ steps' = Append(steps, "copy")
                /\ UNCHANGED <<reason, note, driver>>
           [] r = "notfound" ->
                /\ Raise("Could not find Copy button in VS Code")
                /\ UNCHANGED <<steps, note, driver>>
           [] OTHER ->
                /\ Crash
                /\ UNCHANGED <<steps, reason>>
    /\ UNCHANGED <<retries, iterations, iterBase, enabled, sleeps, copyRetried>>
    /\ UNCHANGED <<hkVars, detVars, auxVars>>

\* lines 122-135: pyperclip.paste() returns text, returns "" or raises; only a
\* raise presses ctrl+c and reads again
ClipRead ==
    /\ pc = "clip_read"
    /\ \E first \in {"text", "empty", "raise"}, second \in {"text", "empty", "raise"} :
         LET again == first = "raise"
             got   == IF again THEN second ELSE first
         IN  /\ copyRetried' = again
             /\ (~again => second = "text")
             /\ IF got = "text"
                  THEN /\ pc' = "send"
                       /\ steps' = Append(steps, "clip_read")
                       /\ UNCHANGED reason
                  ELSE /\ Raise("Clipboard empty after copy")
                       /\ UNCHANGED steps
    /\ UNCHANGED <<retries, iterations, iterBase, enabled, driver, note, sleeps>>
    /\ UNCHANGED <<hkVars, detVars, auxVars>>

\* BrowserFallback without `self.browser.enabled = False`
BrowserFallbackKeepsMode ==
    /\ note' = "browser_fallback"
    /\ enabled' = enabled
    /\ pc' = "check"

\* BrowserFallback handing the failure to the retry handler
BrowserFallbackRaises ==
    /\ note' = "browser_fallback"
    /\ enabled' = FALSE
    /\ pc' = "except"

\* lines 144-149
BrowserFallback ==
    /\ note' = "browser_fallback"
    /\ enabled' = FALSE
    /\ pc' = "check"

\* line 139
SendPrompt ==
    /\ pc = "send"
    /\ \E r \in {"ok", "raise"} :
         IF r = "ok"
           THEN /\ pc' = "get_md"
                /\ steps' = Append(steps, "send")
                /\ UNCHANGED <<note, enabled>>
           ELSE /\ BrowserFallback
                /\ UNCHANGED steps
    /\ UNCHANGED <<retries, iterations, iterBase, driver, reason, sleeps, copyRetried>>
    /\ UNCHANGED <<hkVars, detVars, auxVars>>

\* lines 141-143
GetMarkdown ==
    /\ pc = "get_md"
    /\ \E r \in {"text", "none", "raise"} :
         IF r = "text"
           THEN /\ pc' = "clip_write"
                /\ steps' = Append(steps, "get_md")
                /\ UNCHANGED <<note, enabled>>
           ELSE /\ BrowserFallback
                /\ UNCHANGED steps
    /\ UNCHANGED <<retries, iterations, iterBase, driver, reason, sleeps, copyRetried>>
    /\ UNCHANGED <<hkVars, detVars, auxVars>>

\* lines 152-158
ClipWrite ==
    /\ pc = "clip_write"
    /\ \E r \in {"ok", "raise"} :
         IF r = "ok"
           THEN /\ pc' = "focus_back"
                /\ steps' = Append(steps, "clip_write")
                /\ UNCHANGED note
           ELSE /\ pc' = "check"
                /\ note' = "clipboard_write_failed"
                /\ UNCHANGED steps
    /\ UNCHANGED <<retries, iterations, iterBase, enabled, driver, reason, sleeps,
                   copyRetried>>
    /\ UNCHANGED <<hkVars, detVars, auxVars>>

\* a step that cannot fail: window focus (errors caught in _focus_window) or paste
Plain(at, next) ==
    /\ pc = at
    /\ pc' = next
    /\ steps' = Append(steps, at)
    /\ UNCHANGED <<retries, iterations, iterBase, enabled, driver, note, reason,
                   sleeps, copyRetried>>
    /\ UNCHANGED <<hkVars, detVars, auxVars>>

\* Detect without the `if not found: raise`
DetectNoRaise(at, next, msg) ==
    /\ pc = at
    /\ \E r \in DetectOutcomes :
         CASE r = "found" ->
                /\ pc' = next
                /\ steps' = Append(steps, at)
                /\ UNCHANGED <<reason, note, driver>>
           [] r = "notfound" ->
                /\ pc' = next
                /\ UNCHANGED <<steps, reason, note, driver>>
           [] OTHER ->
                /\ Crash
                /\ UNCHANGED <<steps, reason>>
    /\ UNCHANGED <<retries, iterations, iterBase, enabled, sleeps, copyRetried>>
    /\ UNCHANGED <<hkVars, detVars, auxVars>>

\* a find_with_fallback_and_click step followed by `if not found: raise`
Detect(at, next, msg) ==
    /\ pc = at
    /\ \E r \in DetectOutcomes :
         CASE r = "found" ->
                /\ pc' = next
                /\ steps' = Append(steps, at)
                /\ UNCHANGED <<reason, note, driver>>
           [] r = "notfound" ->
                /\ Raise(msg)
                /\ UNCHANGED <<steps, note, driver>>
           [] OTHER ->
                /\ Crash
                /\ UNCHANGED <<steps, reason>>
    /\ UNCHANGED <<retries, iterations, iterBase, enabled, sleeps, copyRetried>>
    /\ UNCHANGED <<hkVars, detVars, auxVars>>

\* line 162
FocusBrowser == Plain("focus_browser", "textarea")

\* lines 165-172
DetectTextarea ==
    Detect("textarea", "paste_prompt", "Could not find AI Studio textarea")

\* lines 175-177
PastePrompt == Plain("paste_prompt", "run_single")

\* RunSingle failing the attempt when find_and_click reports not found
RunSingleStrict ==
    /\ pc = "run_single"
    /\ \E r \in {"found", "notfound"} :
         IF r = "found"
           THEN /\ pc' = "wait_response"
                /\ steps' = Append(steps, "run")
                /\ UNCHANGED reason
           ELSE /\ Raise("Could not find Run button")
                /\ UNCHANGED steps
    /\ UNCHANGED <<retries, iterations, iterBase, enabled, driver, note,
                   sleeps, copyRetried>>
    /\ UNCHANGED <<hkVars, detVars, auxVars>>

\* lines 180-185: find_and_click swallows every exception of its polls
RunSingle ==
    /\ pc = "run_single"
    /\ \E r \in {"found", "notfound"} :
         IF r = "found"
           THEN /\ pc' = "wait_response"
                /\ steps' = Append(steps, "run")
           ELSE /\ pc' = "run_fallback"
                /\ UNCHANGED steps
    /\ UNCHANGED <<retries, iterations, iterBase, enabled, driver, note, reason,
                   sleeps, copyRetried>>
    /\ UNCHANGED <<hkVars, detVars, auxVars>>

\* lines 186-193
RunFallback ==
    /\ pc = "run_fallback"
    /\ \E r \in DetectOutcomes :
         CASE r = "found" ->
                /\ pc' = "wait_response"
                /\ steps' = Append(steps, "run")
                /\ UNCHANGED <<reason, note, driver>>
           [] r = "notfound" ->
                /\ Raise("Could not find Run button")
                /\ UNCHANGED <<steps, note, driver>>
           [] OTHER ->
                /\ Crash
                /\ UNCHANGED <<steps, reason>>
    /\ UNCHANGED <<retries, iterations, iterBase, enabled, sleeps, copyRetried>>
    /\ UNCHANGED <<hkVars, detVars, auxVars>>

\* lines 196-214: the signal is seen, or the wait times out with a notification;
\* the attempt goes on either way
WaitResponse ==
    /\ pc = "wait_response"
    /\ \E seen \in BOOLEAN :
         note' = IF seen THEN note ELSE "response_timeout"
    /\ pc' = "hover"
    /\ steps' = Append(steps, "wait_response")
    /\ UNCHANGED <<retries, iterations, iterBase, enabled, driver, reason, sleeps,
                   copyRetried>>
    /\ UNCHANGED <<hkVars, detVars, auxVars>>

\* Hover without the `else: raise` of lines 230-231
HoverNoRaise ==
    /\ pc = "hover"
    /\ \E located \in BOOLEAN :
         /\ pc' = "more_options"
         /\ steps' = IF located THEN Append(steps, "hover") ELSE steps
         /\ UNCHANGED reason
    /\ UNCHANGED <<retries, iterations, iterBase, enabled, driver, note, sleeps,
                   copyRetried>>
    /\ UNCHANGED <<hkVars, detVars, auxVars>>

\* lines 217-231
Hover ==
    /\ pc = "hover"
    /\ \E located \in BOOLEAN :
         IF located
           THEN /\ pc' = "more_options"
                /\ steps' = Append(steps, "hover")
                /\ UNCHANGED reason
           ELSE /\ Raise("Could not find AI Studio response block to hover")
                /\ UNCHANGED steps
    /\ UNCHANGED <<retries, iterations, iterBase, enabled, driver, note, sleeps,
                   copyRetried>>
    /\ UNCHANGED <<hkVars, detVars, auxVars>>

\* lines 234-241
MoreOptions ==
    Detect("more_options", "copy_markdown", "Could not find More Options button")

\* lines 244-251
CopyMarkdown ==
    Detect("copy_markdown", "focus_back", "Could not find Copy Markdown button")

\* line 254
FocusBack == Plain("focus_back", "vscode_textarea")

\* lines 258-266
DetectVSCodeTextarea ==
    Detect("vscode_textarea", "paste_response", "Could not find VSCode text input area")

\* lines 269-270
PasteResponse == Plain("paste_response", "submit")

\* lines 273-280
DetectSubmit ==
    Detect("submit", "completed", "Could not find Submit button")

\* lines 282-284
Completed ==
    /\ pc = "completed"
    /\ pc' = "outer"
    /\ note' = "completed"
    /\ UNCHANGED <<retries, iterations, iterBase, enabled, driver, reason, sleeps,
                   steps, copyRetried>>
    /\ UNCHANGED <<hkVars, detVars, auxVars>>

\* lines 286-289
Except ==
    /\ pc = "except"
    /\ retries' = retries + 1
    /\ note' = "attempt_failed"
    /\ pc' = "retry_decide"
    /\ UNCHANGED <<iterations, iterBase, enabled, driver, reason, sleeps, steps,
                   copyRetried>>
    /\ UNCHANGED <<hkVars, detVars, auxVars>>

\* RetryDecide with `retries > max_retries`
RetryDecideOffByOne ==
    /\ pc = "retry_decide"
    /\ IF retries > max_retries
         THEN /\ note' = "max_retries_skip"
              /\ pc' = "outer"
              /\ UNCHANGED sleeps
         ELSE /\ sleeps' = Append(sleeps, Backoff(retries))
              /\ pc' = "check"
              /\ UNCHANGED note
    /\ UNCHANGED <<retries, iterations, iterBase, enabled, driver, reason, steps,
                   copyRetried>>
    /\ UNCHANGED <<hkVars, detVars, auxVars>>

\* lines 291-298
RetryDecide ==
    /\ pc = "retry_decide"
    /\ IF retries >= max_retries
         THEN /\ note' = "max_retries_skip"
              /\ pc' = "outer"
              /\ UNCHANGED sleeps
         ELSE /\ sleeps' = Append(sleeps, Backoff(retries))
              /\ pc' = "check"
              /\ UNCHANGED note
    /\ UNCHANGED <<retries, iterations, iterBase, enabled, driver, reason, steps,
                   copyRetried>>
    /\ UNCHANGED <<hkVars, detVars, auxVars>>

\* BrowserAutomation.stop
BrowserStop == IF enabled /\ driver = "open" THEN "closed" ELSE driver

\* lines 300-307: KeyboardInterrupt, at any point of the loop
Interrupt ==
    /\ pc \notin {"stopped", "crashed"}
    /\ pc' = "stopped"
    /\ note' = "stopped_by_user"
    /\ driver' = IF enabled THEN BrowserStop ELSE driver
    /\ UNCHANGED <<retries, iterations, iterBase, enabled, reason, sleeps, steps,
                   copyRetried>>
    /\ UNCHANGED <<hkVars, detVars, auxVars>>

MainLoop ==
    \/ OuterIteration \/ CheckPaused \/ PauseNotify \/ WaitPaused \/ ResumeNotify
    \/ StartAttempt \/ FocusVSCode \/ DetectCopy
    \/ ClipRead \/ SendPrompt \/ GetMarkdown \/ ClipWrite
    \/ FocusBrowser \/ DetectTextarea \/ PastePrompt \/ RunSingle \/ RunFallback
    \/ WaitResponse \/ Hover \/ MoreOptions \/ CopyMarkdown
    \/ FocusBack \/ DetectVSCodeTextarea \/ PasteResponse \/ DetectSubmit
    \/ Completed \/ Except \/ RetryDecide

----------------------------------------------------------------------------
(* RelayAutomation._hotkey_listener *)

\* HotkeyPress setting the flag instead of flipping it
HotkeyPressSets ==
    /\ hk = "listen"
    /\ paused' = TRUE
    /\ hkNote' = "paused_by_user"
    /\ hk' = "debounce"
    /\ UNCHANGED <<mainVars, detVars, auxVars>>

\* lines 67-71: keyboard.wait returns on a press of the hotkey
HotkeyPress ==
    /\ hk = "listen"
    /\ paused' = ~paused
    /\ hkNote' = IF ~paused THEN "paused_by_user" ELSE "resumed_by_user"
    /\ hk' = "debounce"
    /\ UNCHANGED <<mainVars, detVars, auxVars>>

\* a press of the hotkey during the sleep of line 73: the listener is not in
\* keyboard.wait, the press is seen by nobody
HotkeyMissed ==
    /\ hk = "debounce"
    /\ hk' = "debounce_missed"
    /\ UNCHANGED <<paused, hkNote, mainVars, detVars, auxVars>>

\* line 73
Debounce ==
    /\ hk \in {"debounce", "debounce_missed"}
    /\ hk' = "listen"
    /\ UNCHANGED <<paused, hkNote, mainVars, detVars, auxVars>>

----------------------------------------------------------------------------
(* ImageRecognizer: one call of find_with_fallback_and_click.  Time is the   *)
(* number of 0.5 s ticks since the call's start_time (line 202).             *)

\* boxes (left, top, width, height) of the word OCR reports for the text hint
OcrBoxes == {<<100, 200, 40, 15>>, <<11, 21, 7, 9>>}

\* the element is on screen from tick `at` on
Visible(at, t) == at # Never /\ t >= at

\* lines 180-181
Centre(box) == <<box[1] + box[3] \div 2, box[2] + box[4] \div 2>>

\* `return` of find_with_fallback_and_click
Return(v) ==
    /\ result' = v
    /\ dpc' = "done"

\* FallbackBegin giving the template stage half of the budget
FallbackBeginHalfBudget ==
    /\ dpc = "call"
    /\ LET remaining == timeout - now
       IN  IF remaining <= 0
             THEN /\ Return(FALSE)
                  /\ UNCHANGED <<stageTimeout, calls>>
             ELSE /\ dpc' = "find_and_click"
                  /\ stageTimeout' = (remaining + 1) \div 2
                  /\ calls' = Append(calls, "template")
                  /\ UNCHANGED result
    /\ UNCHANGED <<now, stageStart, kcfg, timeout, screen, found, clicks, sensErr>>
    /\ UNCHANGED <<mainVars, hkVars, auxVars>>

\* lines 202-212
FallbackBegin ==
    /\ dpc = "call"
    /\ LET remaining == timeout - now
       IN  IF remaining <= 0
             THEN /\ Return(FALSE)
                  /\ UNCHANGED <<stageTimeout, calls>>
             ELSE /\ dpc' = "find_and_click"
                  /\ stageTimeout' = remaining
                  /\ calls' = Append(calls, "template")
                  /\ UNCHANGED result
    /\ UNCHANGED <<now, stageStart, kcfg, timeout, screen, found, clicks, sensErr>>
    /\ UNCHANGED <<mainVars, hkVars, auxVars>>

\* find_and_click, lines 28-36
FindAndClickEnter ==
    /\ dpc = "find_and_click"
    /\ IF ~kcfg.template
         THEN /\ found' = FALSE
              /\ dpc' = "after_template"
              /\ UNCHANGED stageStart
         ELSE /\ stageStart' = now
              /\ dpc' = "template_loop"
              /\ UNCHANGED found
    /\ UNCHANGED <<now, stageTimeout, kcfg, timeout, screen, result, calls, clicks,
                   sensErr>>
    /\ UNCHANGED <<mainVars, hkVars, auxVars>>

\* FindAndClickPoll with the loop condition `<= timeout`
FindAndClickPollInclusive ==
    /\ dpc = "template_loop"
    /\ IF now - stageStart <= stageTimeout
         THEN \E j \in 0..screen.lag, err \in BOOLEAN :
                IF Visible(screen.tmplAt, now) /\ ~err
                  THEN /\ clicks' = Append(clicks, [by |-> "template", at |-> screen.tmplPt])
                       /\ now' = now + j + OpDelay
                       /\ found' = TRUE
                       /\ dpc' = "after_template"
                       /\ UNCHANGED sensErr
                  ELSE /\ now' = now + j + PollSleep
                       /\ sensErr' = (sensErr \/ err)
                       /\ UNCHANGED <<clicks, found, dpc>>
         ELSE /\ found' = FALSE
              /\ dpc' = "after_template"
              /\ UNCHANGED <<now, clicks, sensErr>>
    /\ UNCHANGED <<stageStart, stageTimeout, kcfg, timeout, screen, result, calls>>
    /\ UNCHANGED <<mainVars, hkVars, auxVars>>

\* find_and_click, lines 37-49: one evaluation of the loop condition and, if it
\* holds, one poll; `err` is an exception of locateCenterOnScreen (line 44)
FindAndClickPoll ==
    /\ dpc = "template_loop"
    /\ IF now - stageStart < stageTimeout
         THEN \E j \in 0..screen.lag, err \in BOOLEAN :
                IF Visible(screen.tmplAt, now) /\ ~err
                  THEN /\ clicks' = Append(clicks, [by |-> "template", at |-> screen.tmplPt])
                       /\ now' = now + j + OpDelay
                       /\ found' = TRUE
                       /\ dpc' = "after_template"
                       /\ UNCHANGED sensErr
                  ELSE /\ now' = now + j + PollSleep
                       /\ sensErr' = (sensErr \/ err)
                       /\ UNCHANGED <<clicks, found, dpc>>
         ELSE /\ found' = FALSE
              /\ dpc' = "after_template"
              /\ UNCHANGED <<now, clicks, sensErr>>
    /\ UNCHANGED <<stageStart, stageTimeout, kcfg, timeout, screen, result, calls>>
    /\ UNCHANGED <<mainVars, hkVars, auxVars>>

\* FallbackAfterTemplate without `if found: return True`
FallbackAfterTemplateNoReturn ==
    /\ dpc = "after_template"
    /\ IF kcfg.ocr /\ kcfg.text
         THEN LET remaining == timeout - now
              IN  IF remaining <= 0
                    THEN /\ Return(FALSE)
                         /\ UNCHANGED <<stageTimeout, calls>>
                    ELSE /\ dpc' = "find_text_and_click"
                         /\ stageTimeout' = remaining
                         /\ calls' = Append(calls, "ocr")
                         /\ UNCHANGED result
         ELSE /\ dpc' = "pixel_stage"
              /\ UNCHANGED <<result, stageTimeout, calls>>
    /\ UNCHANGED <<now, stageStart, kcfg, timeout, screen, found, clicks, sensErr>>
    /\ UNCHANGED <<mainVars, hkVars, auxVars>>

\* lines 213-227
FallbackAfterTemplate ==
    /\ dpc = "after_template"
    /\ IF found
         THEN /\ Return(TRUE)
              /\ UNCHANGED <<stageTimeout, calls>>
         ELSE IF kcfg.ocr /\ kcfg.text
           THEN LET remaining == timeout - now
                IN  IF remaining <= 0
                      THEN /\ Return(FALSE)
                           /\ UNCHANGED <<stageTimeout, calls>>
                      ELSE /\ dpc' = "find_text_and_click"
                           /\ stageTimeout' = remaining
                           /\ calls' = Append(calls, "ocr")
                           /\ UNCHANGED result
           ELSE /\ dpc' = "pixel_stage"
                /\ UNCHANGED <<result, stageTimeout, calls>>
    /\ UNCHANGED <<now, stageStart, kcfg, timeout, screen, found, clicks, sensErr>>
    /\ UNCHANGED <<mainVars, hkVars, auxVars>>

\* find_text_and_click, lines 169-173
FindTextEnter ==
    /\ dpc = "find_text_and_click"
    /\ IF ~kcfg.ocr
         THEN /\ found' = FALSE
              /\ dpc' = "after_ocr"
              /\ UNCHANGED stageStart
         ELSE /\ stageStart' = now
              /\ dpc' = "ocr_loop"
              /\ UNCHANGED found
    /\ UNCHANGED <<now, stageTimeout, kcfg, timeout, screen, result, calls, clicks,
                   sensErr>>
    /\ UNCHANGED <<mainVars, hkVars, auxVars>>

\* find_text_and_click, lines 174-190: the screenshot of line 175 is taken
\* outside the try, so its failure leaves the call as an exception; `err` is an
\* exception of the OCR engine (line 185)
FindTextPoll ==
    /\ dpc = "ocr_loop"
    /\ IF now - stageStart < stageTimeout
         THEN \E cap \in {"ok", "fail"}, j \in 0..screen.lag, err \in BOOLEAN :
                IF cap = "fail"
                  THEN /\ j = 0 /\ ~err
                       /\ dpc' = "raised"
                       /\ UNCHANGED <<now, clicks, found, sensErr>>
                  ELSE IF Visible(screen.ocrAt, now) /\ ~err
                    THEN /\ clicks' = Append(clicks, [by |-> "ocr", at |-> Centre(screen.ocrBox)])
                         /\ now' = now + j + OpDelay
                         /\ found' = TRUE
                         /\ dpc' = "after_ocr"
                         /\ UNCHANGED sensErr
                    ELSE /\ now' = now + j + PollSleep
                         /\ sensErr' = (sensErr \/ err)
                         /\ UNCHANGED <<clicks, found, dpc>>
         ELSE /\ found' = FALSE
              /\ dpc' = "after_ocr"
              /\ UNCHANGED <<now, clicks, sensErr>>
    /\ UNCHANGED <<stageStart, stageTimeout, kcfg, timeout, screen, result, calls>>
    /\ UNCHANGED <<mainVars, hkVars, auxVars>>

\* FallbackAfterOcr without `if found: return True`
FallbackAfterOcrNoReturn ==
    /\ dpc = "after_ocr"
    /\ dpc' = "pixel_stage"
    /\ UNCHANGED result
    /\ UNCHANGED <<now, stageStart, stageTimeout, kcfg, timeout, screen, found, calls,
                   clicks, sensErr>>
    /\ UNCHANGED <<mainVars, hkVars, auxVars>>

\* lines 224-225
FallbackAfterOcr ==
    /\ dpc = "after_ocr"
    /\ IF found
         THEN Return(TRUE)
         ELSE /\ dpc' = "pixel_stage"
              /\ UNCHANGED result
    /\ UNCHANGED <<now, stageStart, stageTimeout, kcfg, timeout, screen, found, calls,
                   clicks, sensErr>>
    /\ UNCHANGED <<mainVars, hkVars, auxVars>>

\* FallbackPixelStage without the check of the remaining budget
FallbackPixelStageNoCheck ==
    /\ dpc = "pixel_stage"
    /\ dpc' = "find_pixel_and_click"
    /\ stageTimeout' = timeout - now
    /\ calls' = Append(calls, "pixel")
    /\ UNCHANGED result
    /\ UNCHANGED <<now, stageStart, kcfg, timeout, screen, found, clicks, sensErr>>
    /\ UNCHANGED <<mainVars, hkVars, auxVars>>

\* lines 230-235
FallbackPixelStage ==
    /\ dpc = "pixel_stage"
    /\ LET remaining == timeout - now
       IN  IF remaining <= 0
             THEN /\ Return(FALSE)
                  /\ UNCHANGED <<stageTimeout, calls>>
             ELSE /\ dpc' = "find_pixel_and_click"
                  /\ stageTimeout' = remaining
                  /\ calls' = Append(calls, "pixel")
                  /\ UNCHANGED result
    /\ UNCHANGED <<now, stageStart, kcfg, timeout, screen, found, clicks, sensErr>>
    /\ UNCHANGED <<mainVars, hkVars, auxVars>>

\* find_pixel_and_click, lines 77-89
FindPixelEnter ==
    /\ dpc = "find_pixel_and_click"
    /\ IF ~kcfg.pixels
         THEN /\ found' = FALSE
              /\ dpc' = "after_pixel"
              /\ UNCHANGED stageStart
         ELSE /\ stageStart' = now
              /\ dpc' = "pixel_loop"
              /\ UNCHANGED found
    /\ UNCHANGED <<now, stageTimeout, kcfg, timeout, screen, result, calls, clicks,
                   sensErr>>
    /\ UNCHANGED <<mainVars, hkVars, auxVars>>

\* find_pixel_and_click, lines 90-140: the screenshot of line 91 is taken outside
\* any try; `err` is a failed read of the rule's pixel or region (lines 104, 120)
FindPixelPoll ==
    /\ dpc = "pixel_loop"
    /\ IF now - stageStart < stageTimeout
         THEN \E cap \in {"ok", "fail"}, j \in 0..screen.lag, err \in BOOLEAN :
                IF cap = "fail"
                  THEN /\ j = 0 /\ ~err
                       /\ dpc' = "raised"
                       /\ UNCHANGED <<now, clicks, found, sensErr>>
                  ELSE IF Visible(screen.pixAt, now) /\ ~err
                    THEN /\ clicks' = Append(clicks, [by |-> "pixel", at |-> screen.pixPt])
                         /\ now' = now + j + OpDelay
                         /\ found' = TRUE
                         /\ dpc' = "after_pixel"
                         /\ UNCHANGED sensErr
                    ELSE /\ now' = now + j + PollSleep
                         /\ sensErr' = (sensErr \/ err)
                         /\ UNCHANGED <<clicks, found, dpc>>
         ELSE /\ found' = FALSE
              /\ dpc' = "after_pixel"
              /\ UNCHANGED <<now, clicks, sensErr>>
    /\ UNCHANGED <<stageStart, stageTimeout, kcfg, timeout, screen, result, calls>>
    /\ UNCHANGED <<mainVars, hkVars, auxVars>>

\* lines 236-240
FallbackEnd ==
    /\ dpc = "after_pixel"
    /\ Return(found)
    /\ UNCHANGED <<now, stageStart, stageTimeout, kcfg, timeout, screen, found, calls,
                   clicks, sensErr>>
    /\ UNCHANGED <<mainVars, hkVars, auxVars>>

----------------------------------------------------------------------------
(* ImageRecognizer._color_match and _average_color.  A colour is the tuple   *)
(* of its channel values; an image is handed over as the sequence of its     *)
(* pixels' colours (Image.getdata).                                          *)

Abs(x) == IF x < 0 THEN -x ELSE x

\* _color_match with `<` for `<=`
ColorMatchStrict(color1, color2, tolerance) ==
    \A c \in 1..Min(Len(color1), Len(color2)) :
        Abs(color1[c] - color2[c]) < tolerance

\* _color_match without abs()
ColorMatchSigned(color1, color2, tolerance) ==
    \A c \in 1..Min(Len(color1), Len(color2)) :
        color1[c] - color2[c] <= tolerance

\* line 151: zip pairs the channels up to the shorter of the two colours
_color_match(color1, color2, tolerance) ==
    \A c \in 1..Min(Len(color1), Len(color2)) :
        Abs(color1[c] - color2[c]) <= tolerance

\* sum(c[i] for c in pixels), line 162
RECURSIVE SumChannel(_, _)
SumChannel(pixels, i) ==
    IF pixels = <<>> THEN 0
    ELSE Head(pixels)[i] + SumChannel(Tail(pixels), i)

\* what a sampling that raised leaves behind: no colour
NoColor == <<>>

\* _average_color rounding the mean to the nearest integer
AverageColorRounded(pixels) ==
    LET num_pixels == Len(pixels)
    IN  IF num_pixels = 0 THEN NoColor
        ELSE [i \in 1..3 |-> (2 * SumChannel(pixels, i) + num_pixels) \div (2 * num_pixels)]

\* lines 160-163; the `//` by num_pixels = 0 raises ZeroDivisionError
_average_color(pixels) ==
    LET num_pixels == Len(pixels)
    IN  IF num_pixels = 0 THEN NoColor
        ELSE [i \in 1..3 |-> SumChannel(pixels, i) \div num_pixels]

Channel == 0..MaxChan
Colors  == Channel \X Channel \X Channel

\* sequences of at most n elements of S
SeqUpTo(S, n) == UNION {[1..m -> S] : m \in 0..n}

\* one call of one of the two functions, with its arguments
ColorJobs ==
    [fn : {"color_match"}, color1 : Colors, color2 : Colors, tolerance : -1..MaxChan]
      \cup [fn : {"average_color"}, pixels : SeqUpTo(Colors, MaxPixels)]

ColInit ==
    /\ job \in ColorJobs
    /\ out = {}

ColIdle ==
    /\ job = [fn |-> "none"]
    /\ out = {}

\* _color_match called on the job's colours, in either order or on the first
\* colour twice
ColorMatchCall ==
    /\ job.fn = "color_match"
    /\ \E a \in {job.color1, job.color2}, b \in {job.color1, job.color2} :
         out' = out \cup {[fn |-> "color_match", color1 |-> a, color2 |-> b,
                           tolerance |-> job.tolerance,
                           res |-> _color_match(a, b, job.tolerance)]}
    /\ UNCHANGED job
    /\ UNCHANGED <<runVars, pixVars, txtVars, rtyVars, sndVars>>

\* _average_color called on the job's image
AverageColorCall ==
    /\ job.fn = "average_color"
    /\ out' = out \cup {[fn |-> "average_color", pixels |-> job.pixels,
                         res |-> _average_color(job.pixels)]}
    /\ UNCHANGED job
    /\ UNCHANGED <<runVars, pixVars, txtVars, rtyVars, sndVars>>

NextColor == ColorMatchCall \/ AverageColorCall

----------------------------------------------------------------------------
(* ImageRecognizer.find_pixel_and_click: calls on one key.  A screenshot is  *)
(* the sequence of its rows, a row the sequence of its pixels' colours;      *)
(* pixel (x, y) is row y + 1, column x + 1.  Time is in ticks of 0.5 s.      *)

Black == <<0, 0, 0>>

\* two screens of 2 x 1 pixels
ScreenA == << << <<10, 20, 30>>, <<21, 20, 31>> >> >>
ScreenB == << << <<0, 0, 0>>, <<10, 20, 30>> >> >>
Screens == {ScreenA, ScreenB}

ImgW(img) == Len(img[1])
ImgH(img) == Len(img)
InImage(img, x, y) == x \in 0..(ImgW(img) - 1) /\ y \in 0..(ImgH(img) - 1)

\* Image.getpixel((x, y)) for x, y >= 0: IndexError outside the image
getpixel(img, x, y) == IF InImage(img, x, y) THEN img[y + 1][x + 1] ELSE NoColor

\* Image.crop(box).getdata(): the pixels of the box, row by row.  crop does
\* not fail for a box that leaves the image: what lies outside is filled with
\* zeros.  A box without area gives an image without pixels (or, in later
\* versions of the library, an error inside the same try).
crop(img, box) ==
    LET w == box[3] - box[1]
        h == box[4] - box[2]
    IN  IF w <= 0 \/ h <= 0 THEN <<>>
        ELSE [k \in 1..(w * h) |->
                LET x == box[1] + ((k - 1) % w)
                    y == box[2] + ((k - 1) \div w)
                IN  IF InImage(img, x, y) THEN img[y + 1][x + 1] ELSE Black]

\* the rules a key may be configured with: point form, region form
\* (left, top, width, height), or neither
RuleSet ==
    { [x |-> 0, y |-> 0, color |-> <<10, 20, 30>>, tolerance |-> 0],
      [x |-> 1, y |-> 0, color |-> <<5, 15, 25>>],
      [x |-> 2, y |-> 0, color |-> Black, tolerance |-> 255],
      [region |-> <<0, 0, 2, 1>>, color |-> <<15, 20, 30>>, tolerance |-> 0],
      [region |-> <<1, 0, 2, 1>>, color |-> <<5, 10, 15>>, tolerance |-> 0],
      [region |-> <<5, 5, 1, 1>>, color |-> Black, tolerance |-> 0],
      [region |-> <<0, 0, 0, 1>>, color |-> Black, tolerance |-> 255],
      [region |-> <<1, 0, -1, 1>>, color |-> Black, tolerance |-> 255],
      [color |-> <<10, 20, 30>>, tolerance |-> 0] }

\* line 99 and line 115
IsPoint(r)  == "x" \in DOMAIN r /\ "y" \in DOMAIN r
IsRegion(r) == ~IsPoint(r) /\ "region" \in DOMAIN r

\* line 96
Tolerance(r) == IF "tolerance" \in DOMAIN r THEN r.tolerance ELSE DefaultTolerance

\* Sample reading the screen as it is now instead of the screenshot
SampleLive(img, r) ==
    IF IsPoint(r)
      THEN getpixel(live, r.x, r.y)
      ELSE _average_color(crop(live, <<r.region[1], r.region[2],
                                       r.region[1] + r.region[3],
                                       r.region[2] + r.region[4]>>))

\* lines 100-106 and 116-122: the colour the rule reads off the screenshot,
\* NoColor when the read raises
Sample(img, r) ==
    IF IsPoint(r)
      THEN getpixel(img, r.x, r.y)
      ELSE LET left   == r.region[1]
               top    == r.region[2]
               width  == r.region[3]
               height == r.region[4]
           IN  _average_color(crop(img, <<left, top, left + width, top + height>>))

\* lines 109 and 125-127: where a matching rule clicks
ClickPoint(r) ==
    IF IsPoint(r) THEN <<r.x, r.y>> ELSE Centre(r.region)

\* what a poll that matched nothing leaves in the log
NoPoint == <<>>

PixInit ==
    /\ ppc = "call"
    /\ live \in Screens
    /\ shot = <<>>
    /\ rules \in SeqUpTo(RuleSet, MaxRules)
    /\ ptimeout \in 0..MaxPixTimeout
    /\ pnow = 0
    /\ idx = 1
    /\ evals = <<>>
    /\ pclicks = <<>>
    /\ pres = "none"
    /\ pcall = 1
    /\ pollLog = {}

PixIdle ==
    /\ ppc = "idle"
    /\ live = ScreenA
    /\ shot = <<>>
    /\ rules = <<>>
    /\ ptimeout = 0
    /\ pnow = 0
    /\ idx = 1
    /\ evals = <<>>
    /\ pclicks = <<>>
    /\ pres = "none"
    /\ pcall = 1
    /\ pollLog = {}

\* lines 77-89; a single rule given as a dict is the list of that one rule
PixelEnter ==
    /\ ppc = "call"
    /\ IF rules = <<>>
         THEN /\ pres' = FALSE
              /\ ppc' = "done"
         ELSE /\ ppc' = "loop"
              /\ UNCHANGED pres
    /\ UNCHANGED <<live, shot, rules, ptimeout, pnow, idx, evals, pclicks, pcall,
                   pollLog>>
    /\ UNCHANGED <<runVars, colVars, txtVars, rtyVars, sndVars>>

\* lines 90-93 and 139-140: the loop condition and the screenshot of the poll,
\* taken outside any try
PixelCapture ==
    /\ ppc = "loop"
    /\ IF pnow < ptimeout
         THEN \E cap \in {"ok", "fail"} :
                IF cap = "ok"
                  THEN /\ shot' = live
                       /\ idx' = 1
                       /\ evals' = <<>>
                       /\ ppc' = "rules"
                       /\ UNCHANGED pres
                  ELSE /\ ppc' = "raised"
                       /\ UNCHANGED <<shot, idx, evals, pres>>
         ELSE /\ pres' = FALSE
              /\ ppc' = "done"
              /\ UNCHANGED <<shot, idx, evals>>
    /\ UNCHANGED <<live, rules, ptimeout, pnow, pclicks, pcall, pollLog>>
    /\ UNCHANGED <<runVars, colVars, txtVars, rtyVars, sndVars>>

\* PixelRule without `return True` after the click
PixelRuleNoReturn ==
    /\ ppc = "rules"
    /\ idx <= Len(rules)
    /\ LET r == rules[idx]
       IN  IF IsPoint(r) \/ IsRegion(r)
             THEN LET color == Sample(shot, r)
                      hit   == color # NoColor /\ _color_match(color, r.color, Tolerance(r))
                  IN  /\ evals' = Append(evals, [idx |-> idx, sample |-> color,
                                                 matched |-> hit])
                      /\ IF hit
                           THEN /\ pclicks' = Append(pclicks, ClickPoint(r))
                                /\ pnow' = pnow + OpDelay
                                /\ idx' = idx + 1
                                /\ UNCHANGED <<pres, ppc, pollLog>>
                           ELSE /\ idx' = idx + 1
                                /\ UNCHANGED <<pclicks, pnow, pres, ppc, pollLog>>
             ELSE /\ evals' = Append(evals, [idx |-> idx, sample |-> NoColor,
                                             matched |-> FALSE])
                  /\ idx' = idx + 1
                  /\ UNCHANGED <<pclicks, pnow, pres, ppc, pollLog>>
    /\ UNCHANGED <<live, shot, rules, ptimeout, pcall>>
    /\ UNCHANGED <<runVars, colVars, txtVars, rtyVars, sndVars>>

\* PixelRule with `break` for the `continue` of line 134
PixelRuleStopsAtMalformed ==
    /\ ppc = "rules"
    /\ idx <= Len(rules)
    /\ LET r == rules[idx]
       IN  IF IsPoint(r) \/ IsRegion(r)
             THEN LET color == Sample(shot, r)
                      hit   == color # NoColor /\ _color_match(color, r.color, Tolerance(r))
                  IN  /\ evals' = Append(evals, [idx |-> idx, sample |-> color,
                                                 matched |-> hit])
                      /\ IF hit
                           THEN /\ pclicks' = Append(pclicks, ClickPoint(r))
                                /\ pnow' = pnow + OpDelay
                                /\ pres' = TRUE
                                /\ ppc' = "done"
                                /\ pollLog' = pollLog \cup
                                     {[call |-> pcall, shot |-> shot,
                                       outcome |-> ClickPoint(r)]}
                                /\ UNCHANGED idx
                           ELSE /\ idx' = idx + 1
                                /\ UNCHANGED <<pclicks, pnow, pres, ppc, pollLog>>
             ELSE /\ evals' = Append(evals, [idx |-> idx, sample |-> NoColor,
                                             matched |-> FALSE])
                  /\ idx' = Len(rules) + 1
                  /\ UNCHANGED <<pclicks, pnow, pres, ppc, pollLog>>
    /\ UNCHANGED <<live, shot, rules, ptimeout, pcall>>
    /\ UNCHANGED <<runVars, colVars, txtVars, rtyVars, sndVars>>

\* lines 95-134: one pass of the for loop, on rule `idx` of the list; a read
\* that raises (lines 104, 120) and a rule of neither form (line 132) go on to
\* the next rule
PixelRule ==
    /\ ppc = "rules"
    /\ idx <= Len(rules)
    /\ LET r == rules[idx]
       IN  IF IsPoint(r) \/ IsRegion(r)
             THEN LET color == Sample(shot, r)
                      hit   == color # NoColor /\ _color_match(color, r.color, Tolerance(r))
                  IN  /\ evals' = Append(evals, [idx |-> idx, sample |-> color,
                                                 matched |-> hit])
                      /\ IF hit
                           THEN /\ pclicks' = Append(pclicks, ClickPoint(r))
                                /\ pnow' = pnow + OpDelay
                                /\ pres' = TRUE
                                /\ ppc' = "done"
                                /\ pollLog' = pollLog \cup
                                     {[call |-> pcall, shot |-> shot,
                                       outcome |-> ClickPoint(r)]}
                                /\ UNCHANGED idx
                           ELSE /\ idx' = idx + 1
                                /\ UNCHANGED <<pclicks, pnow, pres, ppc, pollLog>>
             ELSE /\ evals' = Append(evals, [idx |-> idx, sample |-> NoColor,
                                             matched |-> FALSE])
                  /\ idx' = idx + 1
                  /\ UNCHANGED <<pclicks, pnow, pres, ppc, pollLog>>
    /\ UNCHANGED <<live, shot, rules, ptimeout, pcall>>
    /\ UNCHANGED <<runVars, colVars, txtVars, rtyVars, sndVars>>

\* line 137: no rule of the list matched this screenshot
PixelSleep ==
    /\ ppc = "rules"
    /\ idx > Len(rules)
    /\ pnow' = pnow + PollSleep
    /\ ppc' = "loop"
    /\ pollLog' = pollLog \cup {[call |-> pcall, shot |-> shot, outcome |-> NoPoint]}
    /\ UNCHANGED <<live, shot, rules, ptimeout, idx, evals, pclicks, pres, pcall>>
    /\ UNCHANGED <<runVars, colVars, txtVars, rtyVars, sndVars>>

\* the screen changes while the call runs
ScreenChanges ==
    /\ ppc \in {"loop", "rules"}
    /\ live' \in Screens \ {live}
    /\ UNCHANGED <<ppc, shot, rules, ptimeout, pnow, idx, evals, pclicks, pres, pcall,
                   pollLog>>
    /\ UNCHANGED <<runVars, colVars, txtVars, rtyVars, sndVars>>

\* the caller locates the same key once more
PixelCallAgain ==
    /\ ppc = "done"
    /\ pcall = 1
    /\ pcall' = pcall + 1
    /\ ppc' = "call"
    /\ pnow' = 0
    /\ idx' = 1
    /\ evals' = <<>>
    /\ pclicks' = <<>>
    /\ pres' = "none"
    /\ UNCHANGED <<live, shot, rules, ptimeout, pollLog>>
    /\ UNCHANGED <<runVars, colVars, txtVars, rtyVars, sndVars>>

NextPixel ==
    \/ PixelEnter \/ PixelCapture \/ PixelRule \/ PixelSleep \/ ScreenChanges
    \/ PixelCallAgain

----------------------------------------------------------------------------
(* ImageRecognizer.find_text_and_click: one call.  A string is the sequence  *)
(* of its characters.  Time is in ticks of 0.5 s.                            *)

\* str.lower() on the characters the model uses
LowerChar(c) ==
    CASE c = "R" -> "r"
      [] c = "U" -> "u"
      [] c = "N" -> "n"
      [] c = "E" -> "e"
      [] c = "S" -> "s"
      [] c = "D" -> "d"
      [] OTHER -> c

lower(str) == [i \in 1..Len(str) |-> LowerChar(str[i])]

\* `a in b` of two strings
Contains(b, a) ==
    \E k \in 0..(Len(b) - Len(a)) : \A i \in 1..Len(a) : b[k + i] = a[i]

\* entries of image_to_data: text, box and confidence; an entry of a block or
\* line has the empty text
WordSet ==
    { [text |-> <<"R", "u", "n">>, left |-> 100, top |-> 200, width |-> 41,
       height |-> 15, conf |-> 96],
      [text |-> <<"R", "E", "R", "U", "N">>, left |-> 11, top |-> 21, width |-> 7,
       height |-> 9, conf |-> 30],
      [text |-> <<"S", "e", "n", "d">>, left |-> 300, top |-> 40, width |-> 50,
       height |-> 20, conf |-> 90],
      [text |-> <<>>, left |-> 0, top |-> 0, width |-> 640, height |-> 480,
       conf |-> -1] }

Targets == { <<"R", "u", "n">>, <<"r", "u", "n">>, <<"S", "E", "N", "D">> }

\* FirstMatch comparing the strings as they are
RECURSIVE FirstMatchCaseSensitive(_, _, _)
FirstMatchCaseSensitive(ws, t, i) ==
    IF i > Len(ws) THEN 0
    ELSE IF Contains(ws[i].text, t) THEN i
    ELSE FirstMatchCaseSensitive(ws, t, i + 1)

\* lines 178-179: the for loop from entry i on; 0 when it runs to its end
RECURSIVE FirstMatch(_, _, _)
FirstMatch(ws, t, i) ==
    IF i > Len(ws) THEN 0
    ELSE IF Contains(lower(ws[i].text), lower(t)) THEN i
    ELSE FirstMatch(ws, t, i + 1)

TxtInit ==
    /\ tpc = "call"
    /\ ocr_enabled \in BOOLEAN
    /\ words \in SeqUpTo(WordSet, MaxWords)
    /\ target \in Targets
    /\ ttimeout \in 0..MaxTxtTimeout
    /\ tnow = 0
    /\ tclicks = <<>>
    /\ tres = "none"
    /\ captures = 0

TxtIdle ==
    /\ tpc = "idle"
    /\ ocr_enabled = TRUE
    /\ words = <<>>
    /\ target = <<>>
    /\ ttimeout = 0
    /\ tnow = 0
    /\ tclicks = <<>>
    /\ tres = "none"
    /\ captures = 0

\* lines 169-173
TextEnter ==
    /\ tpc = "call"
    /\ IF ~ocr_enabled
         THEN /\ tres' = FALSE
              /\ tpc' = "done"
         ELSE /\ tpc' = "loop"
              /\ UNCHANGED tres
    /\ UNCHANGED <<ocr_enabled, words, target, ttimeout, tnow, tclicks, captures>>
    /\ UNCHANGED <<runVars, colVars, pixVars, rtyVars, sndVars>>

\* lines 174-190: the loop condition and one poll; the screenshot of line 175
\* is taken outside the try, `err` is an exception of the OCR engine (line 185)
TextPoll ==
    /\ tpc = "loop"
    /\ IF tnow < ttimeout
         THEN \E cap \in {"ok", "fail"}, err \in BOOLEAN :
                IF cap = "fail"
                  THEN /\ ~err
                       /\ tpc' = "raised"
                       /\ UNCHANGED <<tnow, tclicks, tres, captures>>
                  ELSE LET i == IF err THEN 0 ELSE FirstMatch(words, target, 1)
                       IN  /\ captures' = captures + 1
                           /\ IF i # 0
                                THEN /\ tclicks' = Append(tclicks,
                                          <<words[i].left + words[i].width \div 2,
                                            words[i].top + words[i].height \div 2>>)
                                     /\ tnow' = tnow + OpDelay
                                     /\ tres' = TRUE
                                     /\ tpc' = "done"
                                ELSE /\ tnow' = tnow + PollSleep
                                     /\ UNCHANGED <<tclicks, tres, tpc>>
         ELSE /\ tres' = FALSE
              /\ tpc' = "done"
              /\ UNCHANGED <<tnow, tclicks, captures>>
    /\ UNCHANGED <<ocr_enabled, words, target, ttimeout>>
    /\ UNCHANGED <<runVars, colVars, pixVars, rtyVars, sndVars>>

NextText == TextEnter \/ TextPoll

----------------------------------------------------------------------------
(* The retry handler of RelayAutomation.run under a configuration of the     *)
(* retries section (lines 82-84): the attempts of the outer iterations with   *)
(* what each attempt does left out.                                          *)

\* BackoffFor without the cap
BackoffUncapped(cfg, r) == cfg.backoff_base * Pow2(r - 1)

\* line 296
BackoffFor(cfg, r) == Min(cfg.backoff_base * Pow2(r - 1), cfg.max_backoff)

RtyInit ==
    /\ rpc = "attempt"
    /\ rcfg \in [max_retries : 1..MaxRetriesCfg, backoff_base : 0..MaxBase,
                 max_backoff : 0..MaxCap]
    /\ failures = 0
    /\ slept = <<>>

RtyIdle ==
    /\ rpc = "idle"
    /\ rcfg = [max_retries |-> max_retries, backoff_base |-> backoff_base,
               max_backoff |-> max_backoff]
    /\ failures = 0
    /\ slept = <<>>

\* lines 286-298: an attempt ends with a RuntimeError
AttemptFails ==
    /\ rpc = "attempt"
    /\ failures' = failures + 1
    /\ IF failures' >= rcfg.max_retries
         THEN /\ rpc' = "skipped"
              /\ UNCHANGED slept
         ELSE /\ slept' = Append(slept, BackoffFor(rcfg, failures'))
              /\ UNCHANGED rpc
    /\ UNCHANGED rcfg
    /\ UNCHANGED <<runVars, colVars, pixVars, txtVars, sndVars>>

\* line 284: an attempt runs to its end
AttemptSucceeds ==
    /\ rpc = "attempt"
    /\ rpc' = "succeeded"
    /\ UNCHANGED <<rcfg, failures, slept>>
    /\ UNCHANGED <<runVars, colVars, pixVars, txtVars, sndVars>>

\* lines 87-88: the next outer iteration
NextIteration ==
    /\ rpc \in {"skipped", "succeeded"}
    /\ rpc' = "attempt"
    /\ failures' = 0
    /\ slept' = <<>>
    /\ UNCHANGED rcfg
    /\ UNCHANGED <<runVars, colVars, pixVars, txtVars, sndVars>>

NextRetry == AttemptFails \/ AttemptSucceeds \/ NextIteration

----------------------------------------------------------------------------
(* BrowserAutomation.send_prompt: one call, made by run() at line 139 or by  *)
(* another caller, and what run() does when the call is over.                *)

Backends == {"selenium", "playwright", "other"}

\* the relay loop at line 139, in scripted-session mode
AtSend ==
    /\ pc = "send"
    /\ retries = 0
    /\ iterations = 1
    /\ iterBase = 0
    /\ enabled = TRUE
    /\ driver = "open"
    /\ note = "none"
    /\ reason = "none"
    /\ sleeps = <<>>
    /\ steps = <<"focus_vscode", "copy", "clip_read">>
    /\ copyRetried = FALSE

\* a session that is disabled or has no driver, and a caller other than run()
NoSession ==
    /\ pc = "outer"
    /\ retries = 0
    /\ iterations = 0
    /\ iterBase = 0
    /\ \E ed \in {<<FALSE, "none">>, <<FALSE, "open">>, <<TRUE, "none">>} :
         enabled = ed[1] /\ driver = ed[2]
    /\ note = "none"
    /\ reason = "none"
    /\ sleeps = <<>>
    /\ steps = <<>>
    /\ copyRetried = FALSE

SndInit ==
    /\ spc = "call"
    /\ backend \in Backends
    /\ attempt = 0
    /\ click_attempt = 0
    /\ success = FALSE
    /\ entered = FALSE
    /\ tries = 0
    /\ fails = 0
    /\ sslept = 0

SndIdle ==
    /\ spc = "idle"
    /\ backend = "selenium"
    /\ attempt = 0
    /\ click_attempt = 0
    /\ success = FALSE
    /\ entered = FALSE
    /\ tries = 0
    /\ fails = 0
    /\ sslept = 0

\* what the call leaves alone
SendFrame == UNCHANGED <<runVars, colVars, pixVars, txtVars, rtyVars, backend>>

\* lines 96-100
SendEnter ==
    /\ spc = "call"
    /\ IF ~enabled \/ driver # "open"
         THEN /\ spc' = "returned"
              /\ UNCHANGED attempt
         ELSE /\ spc' = "attempt"
              /\ attempt' = 1
    /\ UNCHANGED <<click_attempt, success, entered, tries, fails, sslept>>
    /\ SendFrame

\* lines 101-117 and 136-143, 163-167: the attempt up to the Run-button loop;
\* waiting for the textarea may raise, and so may typing into it
SendType ==
    /\ spc = "attempt"
    /\ tries' = tries + 1
    /\ IF backend = "other"
         THEN /\ spc' = "returned"
              /\ entered' = FALSE
              /\ UNCHANGED <<click_attempt, success, sslept>>
         ELSE \E r \in {"typed", "no_textarea", "typing_failed"} :
                IF r = "typed"
                  THEN /\ entered' = TRUE
                       /\ sslept' = sslept + 1
                       /\ success' = FALSE
                       /\ click_attempt' = 0
                       /\ spc' = "click_loop"
                  ELSE /\ entered' = FALSE
                       /\ spc' = "failed"
                       /\ UNCHANGED <<click_attempt, success, sslept>>
    /\ UNCHANGED <<attempt, fails>>
    /\ SendFrame

\* lines 118-131 and 144-158: one try of the Run-button loop; an exception of
\* the try is swallowed (lines 129, 156)
SendClickTry ==
    /\ spc = "click_loop"
    /\ ~success
    /\ click_attempt < ClickTries
    /\ \E r \in {"clicked", "no_button", "raised"} :
         IF r = "clicked"
           THEN /\ success' = TRUE
                /\ UNCHANGED <<click_attempt, sslept>>
           ELSE /\ click_attempt' = click_attempt + 1
                /\ sslept' = sslept + 2
                /\ UNCHANGED success
    /\ UNCHANGED <<spc, attempt, entered, tries, fails>>
    /\ SendFrame

\* SendReturn failing the attempt when no Run button was clicked
SendReturnChecked ==
    /\ spc = "click_loop"
    /\ success \/ click_attempt = ClickTries
    /\ spc' = IF success THEN "returned" ELSE "failed"
    /\ UNCHANGED <<attempt, click_attempt, success, entered, tries, fails, sslept>>
    /\ SendFrame

\* lines 127-128, 133-135 and 167 (154-155, 160-161): the Run-button loop is
\* over, with or without a click; `if not success` only logs a warning
SendReturn ==
    /\ spc = "click_loop"
    /\ success \/ click_attempt = ClickTries
    /\ spc' = "returned"
    /\ UNCHANGED <<attempt, click_attempt, success, entered, tries, fails, sslept>>
    /\ SendFrame

\* SendAttemptFailed giving up one attempt early
SendAttemptFailedEarly ==
    /\ spc = "failed"
    /\ fails' = fails + 1
    /\ IF attempt >= max_attempts - 1
         THEN /\ spc' = "raised"
              /\ UNCHANGED <<attempt, sslept>>
         ELSE /\ attempt' = attempt + 1
              /\ sslept' = sslept + 2
              /\ spc' = "attempt"
    /\ UNCHANGED <<click_attempt, success, entered, tries>>
    /\ SendFrame

\* lines 169-175
SendAttemptFailed ==
    /\ spc = "failed"
    /\ fails' = fails + 1
    /\ IF attempt = max_attempts
         THEN /\ spc' = "raised"
              /\ UNCHANGED <<attempt, sslept>>
         ELSE /\ attempt' = attempt + 1
              /\ sslept' = sslept + 2
              /\ spc' = "attempt"
    /\ UNCHANGED <<click_attempt, success, entered, tries>>
    /\ SendFrame

\* relay_automation.py, lines 139-149: run() after its call of send_prompt
SendPromptReturns ==
    /\ pc = "send"
    /\ spc \in {"returned", "raised"}
    /\ IF spc = "returned"
         THEN /\ pc' = "get_md"
              /\ steps' = Append(steps, "send")
              /\ UNCHANGED <<note, enabled>>
         ELSE /\ BrowserFallback
              /\ UNCHANGED steps
    /\ UNCHANGED <<retries, iterations, iterBase, driver, reason, sleeps, copyRetried>>
    /\ UNCHANGED <<hkVars, detVars, auxVars>>

NextSend ==
    \/ SendEnter \/ SendType \/ SendClickTry \/ SendReturn \/ SendAttemptFailed
    \/ SendPromptReturns

\* none of the calls above is running
AuxIdle == ColIdle /\ PixIdle /\ TxtIdle /\ RtyIdle /\ SndIdle

----------------------------------------------------------------------------
(* Initial states *)

DetIdle ==
    /\ dpc = "idle"
    /\ now = 0
    /\ stageStart = 0
    /\ stageTimeout = 0
    /\ kcfg = [template |-> FALSE, text |-> FALSE, ocr |-> FALSE, pixels |-> FALSE]
    /\ timeout = 0
    /\ screen = [tmplAt |-> Never, tmplPt |-> <<50, 60>>,
                 ocrAt |-> Never, ocrBox |-> <<100, 200, 40, 15>>,
                 pixAt |-> Never, pixPt |-> <<300, 400>>, lag |-> 0]
    /\ found = FALSE
    /\ result = "none"
    /\ calls = <<>>
    /\ clicks = <<>>
    /\ sensErr = FALSE

\* RelayAutomation.__init__ (lines 27-45) with BrowserAutomation.__init__/start
RelayInit ==
    /\ pc = "outer"
    /\ retries = 0
    /\ iterations = 0
    /\ iterBase = 0
    /\ enabled \in BOOLEAN
    /\ driver = IF enabled THEN "open" ELSE "none"
    /\ note = "none"
    /\ reason = "none"
    /\ sleeps = <<>>
    /\ steps = <<>>
    /\ copyRetried = FALSE
    /\ paused = FALSE
    /\ hk = "listen"
    /\ hkNote = "none"

Init == RelayInit /\ DetIdle /\ AuxIdle

Next == MainLoop \/ Interrupt \/ HotkeyPress \/ HotkeyMissed \/ Debounce

Spec == Init /\ [][Next]_vars

FairSpec == Spec /\ WF_vars(MainLoop)

\* the arguments of one call, the configuration of its key and the screen
DetInit ==
    /\ dpc = "call"
    /\ now = 0
    /\ stageStart = 0
    /\ stageTimeout = 0
    /\ kcfg \in [template : BOOLEAN, text : BOOLEAN, ocr : BOOLEAN, pixels : BOOLEAN]
    /\ timeout \in 0..MaxTimeout
    /\ screen \in [tmplAt : {0, AppearAt, Never}, tmplPt : {<<50, 60>>},
                   ocrAt : {0, AppearAt, Never}, ocrBox : OcrBoxes,
                   pixAt : {0, AppearAt, Never}, pixPt : {<<300, 400>>},
                   lag : {0, MaxJitter}]
    /\ (~kcfg.template => screen.tmplAt = Never)
    /\ (~kcfg.text => screen.ocrAt = Never)
    /\ (screen.ocrAt = Never => screen.ocrBox = <<100, 200, 40, 15>>)
    /\ (~kcfg.pixels => screen.pixAt = Never)
    /\ found = FALSE
    /\ result = "none"
    /\ calls = <<>>
    /\ clicks = <<>>
    /\ sensErr = FALSE

InitDetect == RelayInit /\ ~enabled /\ DetInit /\ AuxIdle

NextDetect ==
    \/ FallbackBegin \/ FindAndClickEnter \/ FindAndClickPoll \/ FallbackAfterTemplate
    \/ FindTextEnter \/ FindTextPoll \/ FallbackAfterOcr \/ FallbackPixelStage
    \/ FindPixelEnter \/ FindPixelPoll \/ FallbackEnd

SpecDetect == InitDetect /\ [][NextDetect]_vars

\* one call of _color_match or _average_color
InitColor == RelayInit /\ ~enabled /\ DetIdle /\ ColInit /\ PixIdle /\ TxtIdle /\ RtyIdle /\ SndIdle

SpecColor == InitColor /\ [][NextColor]_vars

\* calls of find_pixel_and_click on one key
InitPixel == RelayInit /\ ~enabled /\ DetIdle /\ ColIdle /\ PixInit /\ TxtIdle /\ RtyIdle /\ SndIdle

SpecPixel == InitPixel /\ [][NextPixel]_vars

\* one call of find_text_and_click
InitText == RelayInit /\ ~enabled /\ DetIdle /\ ColIdle /\ PixIdle /\ TxtInit /\ RtyIdle /\ SndIdle

SpecText == InitText /\ [][NextText]_vars

\* the retry handler under a configuration
InitRetry == RelayInit /\ ~enabled /\ DetIdle /\ ColIdle /\ PixIdle /\ TxtIdle /\ RtyInit /\ SndIdle

SpecRetry == InitRetry /\ [][NextRetry]_vars

\* one call of send_prompt
InitSend ==
    /\ AtSend \/ NoSession
    /\ paused = FALSE
    /\ hk = "listen"
    /\ hkNote = "none"
    /\ DetIdle /\ ColIdle /\ PixIdle /\ TxtIdle /\ RtyIdle /\ SndInit

SpecSend == InitSend /\ [][NextSend]_vars

----------------------------------------------------------------------------
(* Properties of find_with_fallback_and_click (SpecDetect) *)

StageOrders ==
    {<<>>, <<"template">>, <<"template", "ocr">>, <<"template", "pixel">>,
     <<"template", "ocr", "pixel">>}

\* C1: the stages of one call are invoked in the order template, OCR, pixel,
\* and the stage that clicked is the last one invoked: after a click by the
\* template stage neither OCR nor pixel is invoked, after a click by the OCR
\* stage the pixel stage is not invoked.
C1_StageOrder ==
    /\ calls \in StageOrders
    /\ \A i \in 1..Len(clicks) : clicks[i].by = calls[Len(calls)]
    /\ (clicks # <<>> /\ dpc = "done" => result = TRUE)

C1_Witness ==
    /\ dpc = "done"
    /\ result = TRUE
    /\ calls = <<"template">>
    /\ clicks = <<[by |-> "template", at |-> <<50, 60>>]>>

\* C2: with a configured template that never matches, a text hint, OCR enabled
\* and a word holding the hint on screen before the timeout elapses, the call
\* returns success having clicked the centre of that word's box.
C2_OcrFallbackClicks ==
    ( /\ dpc = "done"
      /\ kcfg.template /\ screen.tmplAt = Never
      /\ kcfg.text /\ kcfg.ocr
      /\ screen.ocrAt # Never /\ screen.ocrAt < timeout
      /\ ~sensErr )
    => /\ result = TRUE
       /\ clicks = <<[by |-> "ocr", at |-> Centre(screen.ocrBox)]>>

\* C3: with no configured template, a text hint OCR never finds (OCR enabled)
\* and a configured pixel rule that matches the screen, the call returns
\* success having clicked the point of the pixel rule.
C3_PixelFallbackClicks ==
    ( /\ dpc = "done"
      /\ ~kcfg.template
      /\ kcfg.text /\ kcfg.ocr /\ screen.ocrAt = Never
      /\ kcfg.pixels /\ screen.pixAt = 0
      /\ timeout > 0
      /\ ~sensErr )
    => /\ result = TRUE
       /\ clicks = <<[by |-> "pixel", at |-> screen.pixPt]>>

----------------------------------------------------------------------------
(* Properties of the relay loop (Spec, FairSpec) *)

InAttempt == AttemptPcs \cup {"except", "retry_decide"}

\* C4 (as amended): the sleeps of one outer iteration are 2, 4, 8, 16 seconds,
\* one after each of the first four failures and none after the fifth; the
\* fifth failure is reported as exhaustion and no attempt of that outer
\* iteration is started after it.
C4_BackoffSchedule ==
    /\ Len(sleeps) <= 4
    /\ \A i \in 1..Len(sleeps) : sleeps[i] = <<2, 4, 8, 16>>[i]
    /\ retries <= max_retries
    /\ Len(sleeps) \in {retries - 1, retries}
    /\ (pc \in AttemptPcs \cup PausePcs \cup {"check", "start"} => Len(sleeps) = retries)
    /\ (retries = max_retries => /\ Len(sleeps) = max_retries - 1
                                 /\ pc \in {"retry_decide", "outer", "stopped"})
    /\ (pc = "outer" /\ retries = max_retries => note = "max_retries_skip")

C4_Witness ==
    /\ pc = "outer"
    /\ retries = max_retries
    /\ note = "max_retries_skip"
    /\ sleeps = <<2, 4, 8, 16>>

\* C4 as claimed: five failures in a row sleep 2, 4, 8, 16 and 30 seconds.
C4_Original ==
    (pc = "outer" /\ retries = max_retries /\ note = "max_retries_skip")
    => sleeps = <<2, 4, 8, 16, 30>>

\* C5: when the failure count reaches max_retries the loop notifies
\* 'max retries reached / skipping', neither sleeps nor starts another attempt
\* of that iteration and goes to the next outer iteration; after a success it
\* goes to the next outer iteration too; every outer iteration begins with a
\* failure count of 0 and no sleeps.
C5_SkipAndReset ==
    [][ /\ (pc = "retry_decide" /\ retries >= max_retries /\ pc' \notin {pc, "stopped"})
           => /\ pc' = "outer"
              /\ note' = "max_retries_skip"
              /\ sleeps' = sleeps
              /\ iterations' = iterations
        /\ (pc = "completed" /\ pc' \notin {pc, "stopped"})
           => (pc' = "outer" /\ note' = "completed")
        /\ (pc = "outer" /\ pc' \notin {pc, "stopped"})
           => (pc' = "check" /\ retries' = 0 /\ sleeps' = <<>> /\ iterBase' = iterations)
        /\ (iterations' # iterations /\ iterations = iterBase)
           => (retries = 0 /\ sleeps = <<>>)
      ]_vars

C5_Witness ==
    /\ pc = "focus_vscode"
    /\ iterations = iterBase + 1
    /\ iterBase >= max_retries
    /\ retries = 0
    /\ sleeps = <<>>
    /\ note = "max_retries_skip"

\* C6: within one outer iteration the iteration body is started at most
\* max_retries times.
C6_BodyStartsCapped == iterations - iterBase <= max_retries

\* C7: every attempt of an outer iteration carries the iteration number of its
\* first attempt.
C7_SameIterationNumber == pc \in InAttempt => iterations = iterBase + 1

\* C8: the iteration counter is incremented only by the start of an attempt,
\* which is reached only from the checkpoint with the flag read as false; while
\* the flag stays true the loop stays at the checkpoint and starts no attempt.
C8_StartOnlyUnpaused ==
    [][ /\ (iterations' # iterations => pc = "start" /\ pc' = "focus_vscode")
        /\ (pc' = "start" /\ pc # "start" => pc = "check" /\ ~paused)
        /\ (pc \in PausePcs \cup {"check"} /\ paused /\ paused')
           => /\ pc' \in PausePcs \cup {"check", "stopped"}
              /\ iterations' = iterations
      ]_vars

C8_Witness ==
    /\ pc = "wait"
    /\ paused
    /\ iterations >= 1

\* C9: a toggle of the flag changes no variable of the main loop, and a step of
\* an attempt past its checkpoint never moves to the pause wait; it goes back to
\* the checkpoint only through the `continue` statements and the backoff, and
\* extends the attempt's steps by at most the step it performed.
C9_PauseFrame ==
    [][ /\ (paused' # paused => UNCHANGED mainVars)
        /\ (pc \in InAttempt /\ pc' # pc)
           => /\ paused' = paused
              /\ pc' \notin PausePcs \cup {"start"}
              /\ (pc' = "check" => pc \in {"send", "get_md", "clip_write", "retry_decide"})
              /\ (steps' = steps \/ \E s \in AttemptPcs \cup {"run"} : steps' = Append(steps, s))
      ]_vars

C9_Witness ==
    /\ pc = "completed"
    /\ paused
    /\ Len(steps) >= 7

\* C10: when the loop waits at the pause checkpoint and the flag is false from
\* then on (and the user does not stop the process), the loop eventually sends
\* the 'resumed' notification and starts the next attempt.
C10_ResumeLiveness ==
    []( ( /\ pc = "wait"
          /\ iterations < MaxIterations
          /\ [](~paused /\ pc # "stopped") )
        => <>(pc = "focus_vscode" /\ note = "resumed") )

C10_Witness ==
    /\ pc = "focus_vscode"
    /\ note = "resumed"
    /\ ~paused
    /\ iterations >= 2

----------------------------------------------------------------------------
(* Transfer modes, failures and cleanup of the relay loop (Spec) *)

BrowserPcs == {"clip_read", "send", "get_md", "clip_write"}

ClipboardPcs == {"focus_browser", "textarea", "paste_prompt", "run_single",
                 "run_fallback", "wait_response", "hover", "more_options",
                 "copy_markdown"}

C12_NeverReenabled ==
    [][ /\ (~enabled => ~enabled')
        /\ (~enabled => pc \notin BrowserPcs)
        /\ (~enabled' => pc' \notin BrowserPcs)
      ]_vars

C12_Witness ==
    /\ ~enabled
    /\ driver = "open"
    /\ pc = "focus_browser"
    /\ iterBase >= 2

\* C13: an attempt fails with 'Clipboard empty after copy' only after ctrl+c
\* was pressed again and the clipboard read a second time.
C13_CopyRetriedBeforeFail ==
    (pc = "except" /\ reason = "Clipboard empty after copy") => copyRetried

\* C14: run() never leaves its forever loop through an error; only a
\* KeyboardInterrupt ends it.
C14_OnlyInterruptEnds == pc # "crashed"

\* C15: no locator lets an exception of a screen capture, a template load or
\* the OCR engine out to its caller.
C15_LocatorsNeverRaise == dpc # "raised"

FailReason(p) ==
    CASE p = "copy"            -> "Could not find Copy button in VS Code"
      [] p = "clip_read"       -> "Clipboard empty after copy"
      [] p = "textarea"        -> "Could not find AI Studio textarea"
      [] p = "run_fallback"    -> "Could not find Run button"
      [] p = "hover"           -> "Could not find AI Studio response block to hover"
      [] p = "more_options"    -> "Could not find More Options button"
      [] p = "copy_markdown"   -> "Could not find Copy Markdown button"
      [] p = "vscode_textarea" -> "Could not find VSCode text input area"
      [] p = "submit"          -> "Could not find Submit button"
      [] OTHER                 -> "none"

\* C16 (as amended): when the copy button, the AI Studio textarea, the Run
\* button (after both the single-stage and the multi-modal locate), the
\* response block, the more-options menu, the copy-markdown action, the VS Code
\* text input or the submit button is not found, the attempt ends with a
\* RuntimeError naming the element, handled by the retry logic, and performs no
\* later step; a step that performs nothing never moves on to the next step.
\* The wait for the response-complete signal always goes on to the hover.
C16_NotFoundFailsAttempt ==
    [][ /\ (pc' = "except" /\ pc # "except")
           => /\ FailReason(pc) # "none"
              /\ reason' = FailReason(pc)
              /\ steps' = steps
              /\ retries' = retries
        /\ (pc = "except" /\ pc' \notin {pc, "stopped"})
           => (pc' = "retry_decide" /\ retries' = retries + 1 /\ steps' = steps)
        /\ (pc = "retry_decide" /\ pc' \notin {pc, "stopped"})
           => (pc' \in {"check", "outer"} /\ steps' = steps)
        /\ (pc \in AttemptPcs /\ pc' # pc /\ steps' = steps)
           => pc' \in {"except", "check", "crashed", "stopped", "run_fallback", "outer"}
        /\ (pc = "wait_response" /\ pc' \notin {pc, "stopped"}) => pc' = "hover"
      ]_vars

C16_Witness ==
    /\ pc = "retry_decide"
    /\ reason = "Could not find Submit button"
    /\ Len(steps) >= 9
    /\ retries >= 1

\* C16 as claimed, for the response-complete signal: an attempt whose wait for
\* the signal timed out performs no later step.
C16_Original == ~(pc = "hover" /\ note = "response_timeout")

\* C17: after a KeyboardInterrupt no browser session is left open.
C17_SessionStoppedOnInterrupt == pc = "stopped" => driver # "open"

----------------------------------------------------------------------------
(* Budget of find_with_fallback_and_click (SpecDetect) *)

\* C18: a locator is invoked only with a strictly positive remaining budget
\* (timeout minus the time since the call began), which it gets as its
\* timeout; when a stage is due and the remaining budget is not positive, the
\* call returns False at once, invoking and clicking nothing more.
C18_StageNeedsBudget ==
    [][ /\ (calls' # calls => timeout - now > 0 /\ stageTimeout' = timeout - now)
        /\ ( /\ \/ dpc \in {"call", "pixel_stage"}
                \/ dpc = "after_template" /\ ~found /\ kcfg.ocr /\ kcfg.text
             /\ timeout - now <= 0
             /\ dpc' # dpc )
           => /\ dpc' = "done"
              /\ result' = FALSE
              /\ calls' = calls
              /\ clicks' = clicks
      ]_vars

C18_Witness ==
    /\ dpc = "done"
    /\ result = FALSE
    /\ timeout > 0
    /\ kcfg.pixels /\ screen.pixAt = 0
    /\ calls = <<"template">>

----------------------------------------------------------------------------
(* Order of the steps of one attempt (Spec) *)

BrowserPath ==
    <<"focus_vscode", "copy", "clip_read", "send", "get_md", "clip_write",
      "focus_back", "vscode_textarea", "paste_response", "submit">>

ClipboardPath ==
    <<"focus_vscode", "copy", "focus_browser", "textarea", "paste_prompt", "run",
      "wait_response", "hover", "more_options", "copy_markdown",
      "focus_back", "vscode_textarea", "paste_response", "submit">>

IsPrefix(s, t) ==
    /\ Len(s) <= Len(t)
    /\ \A i \in 1..Len(s) : s[i] = t[i]

----------------------------------------------------------------------------
(* Properties of _color_match and _average_color (SpecColor) *)

\* C21: _color_match(observed, expected, tolerance) on two RGB triples is true
\* exactly when, in each of the three channels, the two values differ by at
\* most tolerance in either direction.
C21_ColorMatchPerChannel ==
    \A r \in out : r.fn = "color_match" =>
        (r.res <=> \A c \in 1..3 : /\ r.color1[c] - r.color2[c] <= r.tolerance
                                   /\ r.color2[c] - r.color1[c] <= r.tolerance)

C21_Witness ==
    \E r \in out : /\ r.fn = "color_match"
                   /\ r.res
                   /\ r.tolerance > 0
                   /\ r.color1[1] - r.color2[1] = r.tolerance
                   /\ r.color2[3] - r.color1[3] = r.tolerance

\* C22: _color_match gives the same answer with its two colours exchanged,
\* whatever the tolerance, and is true of a colour and itself whenever the
\* tolerance is not negative.
C22_SymmetricReflexive ==
    \A r \in out : r.fn = "color_match" =>
        /\ \A q \in out :
             (/\ q.fn = "color_match"
              /\ q.color1 = r.color2
              /\ q.color2 = r.color1
              /\ q.tolerance = r.tolerance) => q.res = r.res
        /\ (r.color1 = r.color2 /\ r.tolerance >= 0 => r.res)

C22_Witness ==
    \E r, q, e \in out :
        /\ r.fn = "color_match" /\ q.fn = "color_match" /\ e.fn = "color_match"
        /\ r.color1 # r.color2
        /\ q.color1 = r.color2 /\ q.color2 = r.color1
        /\ ~r.res /\ ~q.res
        /\ r.color1[1] < r.color2[1]
        /\ e.color1 = e.color2 /\ e.tolerance = 0 /\ e.res

\* C23: _average_color of a non-empty image is, in each channel, the largest
\* integer not above the mean of the channel over all pixels; an image whose
\* pixels all have one colour gives that colour.
C23_AverageIsFloorMean ==
    \A r \in out : (r.fn = "average_color" /\ r.pixels # <<>>) =>
        LET n == Len(r.pixels)
        IN  /\ Len(r.res) = 3
            /\ \A i \in 1..3 :
                 /\ r.res[i] * n <= SumChannel(r.pixels, i)
                 /\ SumChannel(r.pixels, i) < (r.res[i] + 1) * n
            /\ ((\A k \in 1..n : r.pixels[k] = r.pixels[1]) => r.res = r.pixels[1])

C23_Witness ==
    \E r \in out : /\ r.fn = "average_color"
                   /\ Len(r.pixels) = 2
                   /\ SumChannel(r.pixels, 1) = 2 * r.res[1] + 1
                   /\ SumChannel(r.pixels, 2) = 2 * r.res[2]

----------------------------------------------------------------------------
(* Properties of find_pixel_and_click (SpecPixel) *)

\* the region (left, top, width, height) has no area or leaves the image
BadRegion(img, reg) ==
    \/ reg[3] <= 0 \/ reg[4] <= 0
    \/ reg[1] < 0 \/ reg[2] < 0
    \/ reg[1] + reg[3] > ImgW(img) \/ reg[2] + reg[4] > ImgH(img)

\* C24: a region rule whose region has no area, or lies partly or wholly
\* outside the screenshot, gets no colour: its sampling fails and the rule
\* does not match.
C24_BadRegionFails ==
    \A k \in 1..Len(evals) :
        LET r == rules[evals[k].idx]
        IN  (IsRegion(r) /\ BadRegion(shot, r.region))
               => (evals[k].sample = NoColor /\ ~evals[k].matched)

\* C25: a poll evaluates the rules in list order, each against the poll's one
\* screenshot; the first rule that matches ends the poll and is clicked at its
\* pixel (point form) or at the centre of its region, so no rule after it is
\* evaluated or clicked.
C25_FirstMatchInOrder ==
    /\ Len(evals) <= Len(rules)
    /\ Len(pclicks) <= 1
    /\ \A k \in 1..Len(evals) :
         /\ evals[k].idx = k
         /\ evals[k].sample = (IF IsPoint(rules[k]) \/ IsRegion(rules[k])
                                 THEN Sample(shot, rules[k]) ELSE NoColor)
         /\ (evals[k].matched => k = Len(evals))
    /\ (pclicks # <<>> => evals # <<>> /\ evals[Len(evals)].matched)
    /\ ((evals # <<>> /\ evals[Len(evals)].matched) =>
          LET r == rules[Len(evals)]
          IN  pclicks = << IF "x" \in DOMAIN r /\ "y" \in DOMAIN r
                             THEN <<r.x, r.y>>
                             ELSE <<r.region[1] + r.region[3] \div 2,
                                    r.region[2] + r.region[4] \div 2>> >>)

C25_Witness ==
    /\ ppc = "done"
    /\ Len(rules) = 2
    /\ Len(evals) = 1
    /\ IsRegion(rules[1])
    /\ ~BadRegion(shot, rules[1].region)
    /\ pclicks = <<Centre(rules[1].region)>>
    /\ live # shot
    /\ IsPoint(rules[2])
    /\ Sample(live, rules[2]) # NoColor
    /\ _color_match(Sample(live, rules[2]), rules[2].color, Tolerance(rules[2]))

\* C26: a call on a key without rules, and a call whose timeout runs out with
\* no rule matched, return False having clicked nothing; a rule of neither
\* form never matches and the rules after it are evaluated in the same poll.
C26_NotFoundAndMalformedSkipped ==
    /\ (ppc = "done" /\ rules = <<>>) =>
          (pres = FALSE /\ pclicks = <<>> /\ \A p \in pollLog : p.call # pcall)
    /\ (ppc = "done" /\ pclicks = <<>>) =>
          (pres = FALSE /\ (rules # <<>> => pnow >= ptimeout))
    /\ (ppc = "done" /\ pclicks # <<>>) => pres = TRUE
    /\ \A k \in 1..Len(evals) :
         (~IsPoint(rules[k]) /\ ~IsRegion(rules[k])) => ~evals[k].matched
    /\ (ppc = "loop" /\ evals # <<>>) => Len(evals) = Len(rules)

C26_Witness ==
    /\ ppc = "done"
    /\ pclicks = <<>>
    /\ ptimeout > 0
    /\ Len(rules) = 2
    /\ ~IsPoint(rules[1]) /\ ~IsRegion(rules[1])
    /\ IsPoint(rules[2])
    /\ Len(evals) = 2

\* C27: two polls of the key's rules on the same screenshot have the same
\* outcome: the same clicked point, or no match both times.
C27_SameShotSameOutcome ==
    \A p, q \in pollLog : p.shot = q.shot => p.outcome = q.outcome

C27_Witness ==
    \E p, q \in pollLog :
        /\ p.call = 1 /\ q.call = 2
        /\ p.shot = q.shot
        /\ p.outcome # NoPoint
        /\ live # p.shot

----------------------------------------------------------------------------
(* Properties of find_text_and_click (SpecText) *)

\* the same letter, in either case
SameLetter(a, b) ==
    \/ a = b
    \/ \E S \in {{"r", "R"}, {"u", "U"}, {"n", "N"}, {"e", "E"}, {"s", "S"},
                 {"d", "D"}} : a \in S /\ b \in S

\* the word contains the target, case aside
HasTarget(w) ==
    \E k \in 0..(Len(w.text) - Len(target)) :
        \A i \in 1..Len(target) : SameLetter(w.text[k + i], target[i])

\* C28: find_text_and_click clicks once, at the centre of the first word in
\* OCR order that contains the target case-insensitively, whatever the later
\* words and the confidences are; with OCR disabled it returns False without
\* a screenshot or a click, and a call that ends with no word matched returns
\* False without a click.
C28_FirstWordCentre ==
    /\ (tpc = "done" /\ ~ocr_enabled) =>
          (tres = FALSE /\ captures = 0 /\ tclicks = <<>>)
    /\ (tpc = "done" /\ tclicks = <<>>) => tres = FALSE
    /\ (tpc = "done" /\ tclicks = <<>> /\ ocr_enabled) => tnow >= ttimeout
    /\ tclicks # <<>> =>
          /\ tpc = "done"
          /\ tres = TRUE
          /\ Len(tclicks) = 1
          /\ \E i \in 1..Len(words) :
               /\ HasTarget(words[i])
               /\ \A j \in 1..(i - 1) : ~HasTarget(words[j])
               /\ tclicks[1] = <<words[i].left + words[i].width \div 2,
                                 words[i].top + words[i].height \div 2>>

C28_Witness ==
    /\ tpc = "done"
    /\ Len(words) = 2
    /\ tclicks = <<<<14, 25>>>>
    /\ target = <<"r", "u", "n">>
    /\ HasTarget(words[2])
    /\ words[2].conf > words[1].conf

----------------------------------------------------------------------------
(* Properties of the retry handler under a configuration (SpecRetry) *)

\* C29: the sleep after the k-th failure of an outer iteration, k below
\* max_retries_per_iteration, is min(backoff_base * 2^(k-1), max_backoff);
\* the sleeps of one outer iteration never decrease and none is above
\* max_backoff.
C29_BackoffFormula ==
    /\ Len(slept) = (IF rpc = "skipped" THEN failures - 1 ELSE failures)
    /\ \A k \in 1..Len(slept) :
         /\ k < rcfg.max_retries
         /\ slept[k] = (IF rcfg.backoff_base * Pow2(k - 1) <= rcfg.max_backoff
                          THEN rcfg.backoff_base * Pow2(k - 1)
                          ELSE rcfg.max_backoff)
         /\ slept[k] <= rcfg.max_backoff
         /\ (k > 1 => slept[k - 1] <= slept[k])

C29_Witness ==
    /\ Len(slept) = 3
    /\ slept[1] < slept[2]
    /\ slept[2] < slept[3]
    /\ slept[3] = rcfg.max_backoff
    /\ rcfg.backoff_base * 4 > rcfg.max_backoff

----------------------------------------------------------------------------
(* The Run button in clipboard mode (Spec) *)

\* C30: in clipboard mode the Run button is looked for by find_and_click and,
\* when that reports not found, once more by find_with_fallback_and_click; the
\* attempt fails with 'Could not find Run button' only after the second
\* locate reported not found too.
C30_RunLocatedTwice ==
    [][ /\ (pc \in {"run_single", "run_fallback"} => ~enabled)
        /\ (pc = "run_single" /\ pc' # pc) =>
              pc' \in {"wait_response", "run_fallback", "stopped"}
        /\ (pc = "run_fallback" /\ pc' # pc) =>
              pc' \in {"wait_response", "except", "crashed", "stopped"}
        /\ (pc # "except" /\ pc' = "except" /\ reason' = "Could not find Run button")
              => pc = "run_fallback" ]_vars

C30_Witness ==
    /\ pc = "except"
    /\ reason = "Could not find Run button"

\* C30 as claimed: the attempt fails as soon as the single-stage locate
\* reports not found.
C30_Original ==
    [][ (pc = "run_single" /\ pc' # pc) =>
           \/ pc' \in {"wait_response", "stopped"}
           \/ (pc' = "except" /\ reason' = "Could not find Run button") ]_vars

----------------------------------------------------------------------------
(* The pause flag and its one writer (Spec) *)

\* C31: the paused flag changes only in a step of the hotkey listener that
\* leaves the main loop where it is; the listener flips the flag once for each
\* press it receives in keyboard.wait, and a press during the debounce sleep
\* that follows a flip changes nothing; no step of the main loop (attempt,
\* retry, backoff) changes the flag.
C31_SingleWriter ==
    [][ /\ (paused' # paused) =>
              (hk = "listen" /\ hk' = "debounce" /\ UNCHANGED mainVars)
        /\ (hk = "listen" /\ hk' # hk) => (hk' = "debounce" /\ paused' = ~paused)
        /\ (hk # "listen") => paused' = paused
        /\ (pc' # pc \/ retries' # retries \/ sleeps' # sleeps) => paused' = paused
      ]_vars

C31_Witness ==
    /\ hk = "debounce_missed"
    /\ paused
    /\ pc = "retry_decide"
    /\ retries = 2

\* C31 as claimed: every press of the hotkey flips the flag.
C31_Original ==
    [][ (hk' # hk /\ hk' # "listen") => paused' = ~paused ]_vars

----------------------------------------------------------------------------
(* Properties of send_prompt (SpecSend) *)

\* the call is over
SendOver == spc \in {"returned", "raised"}

\* C32: a call on an enabled session with a driver makes at most 3 attempts,
\* returns at the first attempt that does not raise and raises after exactly 3
\* failed attempts; a call on a disabled session or one without driver
\* returns without an attempt.
C32_ThreeAttempts ==
    /\ tries <= 3
    /\ fails <= tries
    /\ (spc = "raised" => (tries = 3 /\ fails = 3))
    /\ (spc = "returned" /\ (~enabled \/ driver # "open"))
          => (tries = 0 /\ fails = 0 /\ sslept = 0)
    /\ (spc = "returned" /\ enabled /\ driver = "open")
          => (tries \in 1..3 /\ fails = tries - 1)
    /\ (~SendOver /\ spc # "call") => (tries - fails \in {0, 1} /\ fails < 3)

C32_Witness ==
    /\ spc = "returned"
    /\ tries = 3
    /\ fails = 2
    /\ success

----------------------------------------------------------------------------
(* Later stages of find_with_fallback_and_click (SpecDetect) *)

\* the locators the call has invoked
Invoked == {calls[i] : i \in 1..Len(calls)}

C35_OneClickIffSuccess ==
    /\ Len(clicks) <= 1
    /\ (dpc = "done" => (result = TRUE <=> Len(clicks) = 1))
    /\ (dpc = "done" /\ result = FALSE) => clicks = <<>>
    /\ (dpc \notin {"done", "after_template", "after_ocr", "after_pixel"})
          => clicks = <<>>

C35_Witness ==
    /\ dpc = "done"
    /\ result = TRUE
    /\ Len(clicks) = 1
    /\ clicks[1].by = "pixel"
    /\ calls = <<"template", "pixel">>

----------------------------------------------------------------------------
(* The `continue` statements of scripted-session mode (Spec) *)

====
